---- MODULE Spec2Model ----
(***************************************************************************)
(* A model of the ledger journal scanner of src/parse/lex.go.              *)
(*                                                                         *)
(* The scanner is a producer goroutine (lexer.run) that walks a chain of   *)
(* state functions over the input and hands each item to the consumer over *)
(* the unbuffered channel l.items.  The consumer is the test helper        *)
(* collect (nextItem until the first itemEOF or itemError), which may      *)
(* abandon the stream at any point and call drain.                         *)
(*                                                                         *)
(* The input is a sequence of bytes, each written as a one-character       *)
(* string; "C3" "A9" are the two bytes of the UTF-8 encoding of U+00E9.    *)
(* Positions are byte offsets, as in the source (0-based, so the byte at   *)
(* offset p is input[p + 1]).                                              *)
(***************************************************************************)
EXTENDS Integers, Sequences, FiniteSets, TLC

VARIABLES
    input,          \* lexer.input
    pos,            \* lexer.pos
    start,          \* lexer.start
    width,          \* lexer.width
    lastPos,        \* lexer.lastPos
    items,          \* lexer.items: the items sent and not yet received
    closed,         \* close(l.items) has run
    pc,             \* where the producer goroutine is
    ret,            \* where the running scanSpaces call returns to
    expectIndent,   \* the local variable of lexPostings
    received,       \* the items nextItem has returned to collect, in order
    consumer        \* "reading" | "draining" | "drained"

vars == <<input, pos, start, width, lastPos, items, closed, pc, ret,
          expectIndent, received, consumer>>

(***************************************************************************)
(* itemType, with the values iota gives them.                              *)
(***************************************************************************)
itemError == 0
itemEOF == 1
itemString == 2
itemNote == 3
itemDate == 6
itemSpace == 7
itemEOL == 8
itemEqual == 10
itemAsterisk == 11
itemExclamation == 12
itemCommodity == 14
itemIdentifier == 15
itemLeftParen == 16
itemRightParen == 17
itemNeg == 18
itemQuantity == 19
itemTilde == 20
itemAccountName == 24
itemKeyword == 29
itemInclude == 30
itemAccountKeyword == 31
itemEnd == 32
itemAlias == 33
itemPrice == 34

eof == "eof"
RuneError == "U+FFFD"
LatinSmallEAcute == "U+00E9"

wInclude == <<"i", "n", "c", "l", "u", "d", "e">>
wAccount == <<"a", "c", "c", "o", "u", "n", "t">>
wEnd == <<"e", "n", "d">>
wAlias == <<"a", "l", "i", "a", "s">>
wP == <<"P">>

\* key[word]: the zero value itemError for a word that is not in the map
key(word) ==
    IF word = wInclude THEN itemInclude
    ELSE IF word = wAccount THEN itemAccountKeyword
    ELSE IF word = wEnd THEN itemEnd
    ELSE IF word = wAlias THEN itemAlias
    ELSE IF word = wP THEN itemPrice
    ELSE itemError

(***************************************************************************)
(* Rune classes.                                                           *)
(***************************************************************************)
Letters ==
    {"a", "b", "c", "d", "e", "f", "g", "h", "i", "j", "k", "l", "m", "n", "o",
     "p", "q", "r", "s", "t", "u", "v", "w", "x", "y", "z",
     "A", "B", "C", "D", "E", "F", "G", "H", "I", "J", "K", "L", "M", "N", "O",
     "P", "Q", "R", "S", "T", "U", "V", "W", "X", "Y", "Z", LatinSmallEAcute}

Digits == {"0", "1", "2", "3", "4", "5", "6", "7", "8", "9"}

IsLetter(r) == r \in Letters

IsDigit(r) == r \in Digits

isSpace(r) == r = " " \/ r = "\t"

isEndOfLine(r) == r = "\r" \/ r = "\n"

isAlphaNumeric(r) == r = "_" \/ IsLetter(r) \/ IsDigit(r)

(***************************************************************************)
(* The rune cursor.                                                        *)
(***************************************************************************)
\* utf8.DecodeRuneInString(l.input[p:]) behind the end-of-input test of next
DecodeRune(p) ==
    IF p >= Len(input) THEN [r |-> eof, w |-> 0]
    ELSE LET b == input[p + 1] IN
         IF b = "C3"
         THEN IF p + 1 < Len(input) /\ input[p + 2] = "A9"
              THEN [r |-> LatinSmallEAcute, w |-> 2]
              ELSE [r |-> RuneError, w |-> 1]
         ELSE IF b = "A9" THEN [r |-> RuneError, w |-> 1]
         ELSE [r |-> b, w |-> 1]

\* the rune next (or peek) returns at offset p, and the width it leaves
RuneAt(p) == DecodeRune(p).r

WidthAt(p) == DecodeRune(p).w

\* l.input[s:p]
Slice(s, p) == SubSeq(input, s + 1, p)

\* l.current() with l.pos = p
current(p) == Slice(start, p)

\* the item emit sends with l.pos = p
emitItem(t, p) == [typ |-> t, pos |-> start, val |-> current(p)]

\* the item errorf sends; the message is kept as its format and its argument
errorItem(msg) == [typ |-> itemError, pos |-> start, val |-> msg]

\* backup that steps back by the width of two runes
backup_twice(p, w) == p - w - w

\* l.backup() with l.pos = p and l.width = w: the offset it leaves the cursor at
backup(p, w) == p - w

\* nextItem that keeps lastPos where it is when the item is an Error
returnedPos_errorSkipped(it) == IF it.typ = itemError THEN lastPos ELSE it.pos

\* the offset nextItem stores in l.lastPos when it returns the item it
returnedPos(it) == it.pos

RECURSIVE Count(_, _)
\* strings.Count(s, c) for a substring c of one byte
Count(s, c) ==
    IF s = <<>> THEN 0
    ELSE (IF Head(s) = c THEN 1 ELSE 0) + Count(Tail(s), c)

\* l.lineNumber()
lineNumber == 1 + Count(Slice(0, lastPos), "\n")

\* a channel whose send does not wait for the receiver
CanRun_unblocked == Len(items) <= 1

\* a send on the unbuffered channel blocks the producer until it is received
CanRun == items = <<>>

(***************************************************************************)
(* Scanning loops, as the offset each leaves the cursor at.  Each loop     *)
(* goes on from the offset n behind the rune it has just read; n is bound  *)
(* to that offset's value so that it is computed once per iteration.       *)
(***************************************************************************)
RECURSIVE acceptSpaces(_)
\* for isSpace(l.peek()) { l.next() }
acceptSpaces(p) ==
    IF isSpace(RuneAt(p))
    THEN CHOOSE q \in {acceptSpaces(n) : n \in {p + WidthAt(p)}} : TRUE
    ELSE p

RECURSIVE acceptAlphaNumeric(_)
\* the absorb loop of lexIdentifier: the offset of the first other rune
acceptAlphaNumeric(p) ==
    IF isAlphaNumeric(RuneAt(p))
    THEN CHOOSE q \in {acceptAlphaNumeric(n) : n \in {p + WidthAt(p)}} : TRUE
    ELSE p

RECURSIVE stringToEOL_newlineOnly(_)
\* scanStringToEOL that takes only '\n' for an end of line
stringToEOL_newlineOnly(p) ==
    IF RuneAt(p) = "\n" \/ RuneAt(p) = eof THEN p
    ELSE CHOOSE q \in {stringToEOL_newlineOnly(n) : n \in {p + WidthAt(p)}} : TRUE

RECURSIVE stringToEOL(_)
\* the loop of scanStringToEOL
stringToEOL(p) ==
    IF isEndOfLine(RuneAt(p)) \/ RuneAt(p) = eof THEN p
    ELSE CHOOSE q \in {stringToEOL(n) : n \in {p + WidthAt(p)}} : TRUE

RECURSIVE stringUntil(_, _)
\* the loop of scanStringUntil
stringUntil(p, until) ==
    IF isEndOfLine(RuneAt(p)) \/ RuneAt(p) = eof \/ RuneAt(p) = until THEN p
    ELSE CHOOSE q \in {stringUntil(n, until) : n \in {p + WidthAt(p)}} : TRUE

RECURSIVE stringNoteStop(_)
\* the loop of scanStringNote: the offset of the first ';', end-of-line or eof
stringNoteStop(p) ==
    IF RuneAt(p) = ";" \/ isEndOfLine(RuneAt(p)) \/ RuneAt(p) = eof THEN p
    ELSE CHOOSE q \in {stringNoteStop(n) : n \in {p + WidthAt(p)}} : TRUE

RECURSIVE noteStop(_)
\* the loop of scanNote: the offset of the first end-of-line or eof
noteStop(p) ==
    IF isEndOfLine(RuneAt(p)) \/ RuneAt(p) = eof THEN p
    ELSE CHOOSE q \in {noteStop(n) : n \in {p + WidthAt(p)}} : TRUE

\* atTerminator that takes any rune but a letter, a digit or an underscore
atTerminator_anyOther(p) == ~isAlphaNumeric(RuneAt(p)) /\ RuneAt(p) # eof

\* lexer.atTerminator with l.pos = p
atTerminator(p) == isSpace(RuneAt(p)) \/ isEndOfLine(RuneAt(p))

\* a field separator starts at p: a tab, or a space followed by a space or tab
atSpacer(p) ==
    \/ RuneAt(p) = "\t"
    \/ RuneAt(p) = " " /\ isSpace(RuneAt(p + 1))

RECURSIVE accountNameStop(_)
\* scanAccountName: until end-of-line, end of input or a field separator
accountNameStop(p) ==
    IF isEndOfLine(RuneAt(p)) \/ RuneAt(p) = eof \/ atSpacer(p) THEN p
    ELSE CHOOSE q \in {accountNameStop(n) : n \in {p + WidthAt(p)}} : TRUE

(***************************************************************************)
(* The inputs.                                                             *)
(***************************************************************************)
MaxChunks == 3

Chunks ==
    {<<" ">>, <<"\t">>, <<"\n">>, <<"\r">>, <<"~">>, <<"=">>, <<"2">>, <<"/">>,
     <<"a">>, <<";">>, <<"*">>, <<"!">>, <<"(">>, <<")">>, <<"#">>,
     <<"C3", "A9">>, wInclude, wEnd, wAccount}

RECURSIVE ChunkInputs(_)
ChunkInputs(k) ==
    IF k = 0 THEN {<<>>}
    ELSE LET shorter == ChunkInputs(k - 1)
         IN  shorter \cup {s \o c : s \in shorter, c \in Chunks}

\* the inputs of lexTests
tAccount ==
    <<"a", "c", "c", "o", "u", "n", "t", " ", "A", "c", "c", "o", "u", "n",
      "t">>

tAccountAlias ==
    <<"a", "c", "c", "o", "u", "n", "t", " ", "A", "c", "c", "o", "u", "n",
      "t", "\n", " ", "a", "l", "i", "a", "s", " ", "a", "c", "t">>

tAutoXact ==
    <<"=", " ">>

tPeriodicXact ==
    <<"~", " ", " ", "m", "o", "n", "t", "h", "l", "y", " ", ";", " ", "N",
      "o", "t", "e">>

tPlainXact ==
    <<"2", "0", "1", "6", "/", "0", "9", "/", "0", "9", " ", "P", "a", "y",
      "e", "e">>

tIncludeFile ==
    <<"i", "n", "c", "l", "u", "d", "e", " ", "\"", "f", "i", "l", "e", "n",
      "a", "m", "e", "\"">>

tSimpleTransaction ==
    <<"2", "0", "1", "6", "/", "0", "9", "/", "0", "9", " ", "P", "a", "y",
      "e", "e", "\n", " ", "A", "c", "c", "o", "u", "n", "t", " ", " ", "-",
      " ", "2", "0", ".", "0", "0", " ", "C", "A", "D">>

tLessSimpleTransaction ==
    <<"2", "0", "1", "6", "/", "0", "9", "/", "0", "9", " ", "*", " ", "P",
      "a", "y", "e", "e", " ", ";", " ", "S", "o", " ", "h", "e", "l", "p",
      " ", "m", "e", " ", "G", "o", "d", "\n", " ", " ", " ", " ", "A", "c",
      "c", "o", "u", "n", "t", " ", " ", "-", "2", "0", ".", "0", "0", " ",
      "C", "A", "D", "\n", " ", " ", " ", " ", "A", "c", "c", "o", "u", "n",
      "t", "2", ":", "S", "p", "a", "c", "e", "d", " ", "c", "h", "i", "l",
      "d", ":", "L", "e", "a", "f", " ", " ", " ", " ", " ", "C", "A", "D",
      " ", "2", "0", ".", "0", "0", "\n">>

tPlainXactEOF ==
    <<"2", "0", "1", "6", "/", "0", "9", "/", "0", "9">>

tPlainXactEOL ==
    <<"2", "0", "1", "6", "/", "0", "9", "/", "0", "9", "\n">>

tErroneousDateNonDigit ==
    <<"2", "0", "1", "6", "/", "0", "9", "e", "e", "e", "\n">>

tErroneousDate ==
    <<"2", "0", "1", "6", "/", "0", "9", "9", "/", "0", "8", " ", "P", "a",
      "y", "e", "e">>

tErroneousShortDate ==
    <<"2", "0", "1", "6", "/", "0", "9">>

TestInputs ==
    {tAccount,
     tAccountAlias,
     tAutoXact,
     tPeriodicXact,
     tPlainXact,
     tIncludeFile,
     tSimpleTransaction,
     tLessSimpleTransaction,
     tPlainXactEOF,
     tPlainXactEOL,
     tErroneousDateNonDigit,
     tErroneousDate,
     tErroneousShortDate}

\* posting lines and header lines followed by a line that is not indented
PostingInputs ==
    {<<"~", ";", "\n", " ", "a", "\n", "a", " ">>,
     <<"~", "\n", "2", "\n">>,
     <<"=", "\r", " ", "*", "#", "!">>,
     <<"~", "\n", "a", "\r", "2", " ">>,
     <<"=", ";", "\n", "\t", "a", " ", "a", "\n", "~">>,
     <<"2", " ", "a", "\n", "2", " ", "a">>,
     <<"2", " ", "a", ";", "a", "\n", "2", " ", "a", "\n">>}

\* header lines with an '=' and a second date
HeaderInputs ==
    {<<"2", " ", "=", "2", " ">>,
     <<"2", " ", "=", " ", "/", "2", "\t", "a">>,
     <<"2", "\t", "=", "\t", "a">>,
     <<"2", " ", "=", " ", "\n">>,
     <<"2", " ", "*", " ", "=", " ", "(", "a", ")", "a">>}

\* longer inputs for the bareword and include paths
CaseInputs ==
    {wAccount \o <<" ", "a", "#">>,
     wEnd \o <<" ", "a", "#", "\n">>,
     wEnd \o <<" ">> \o wInclude \o <<" ", "a", "\n", "a">>,
     wInclude \o <<"\t", " ", "a", ";", " ", "b", "\r", "\n", "a", " ">>,
     wInclude \o <<" ", "\t", "\n", "a">>,
     <<"a", "\n">> \o wInclude \o <<"\r">> \o wInclude \o <<" ", "a">>,
     wAlias \o <<" ">> \o wP \o <<" ", "C3", "A9", "_", "2", "\n">>}

Inputs == ChunkInputs(MaxChunks) \cup TestInputs \cup CaseInputs \cup PostingInputs
              \cup HeaderInputs

\* the inputs of the specification with fairness: every input of one chunk,
\* the inputs of lexTests, and a transaction header with a parenthesis
tParenthesis == <<"2", " ", "(", "a", ")", " ", "a">>

FairInputs == ChunkInputs(1) \cup TestInputs \cup {tParenthesis}

(***************************************************************************)
(* lex: the state after construction, the goroutine about to enter run.    *)
(***************************************************************************)
Start(sources) ==
    /\ input \in sources
    /\ pos = 0
    /\ start = 0
    /\ width = 0
    /\ lastPos = 0
    /\ items = <<>>
    /\ closed = FALSE
    /\ pc = "lexJournal"
    /\ ret = "none"
    /\ expectIndent = FALSE
    /\ received = <<>>
    /\ consumer = "reading"

Init == Start(Inputs)

FairInit == Start(FairInputs)

(***************************************************************************)
(* The producer.  Every step leaves the cursor at offset p with width w;   *)
(* each ends at a send (emit, errorf), at a call of scanSpaces or at the   *)
(* return of a state function.                                             *)
(***************************************************************************)
Producer(p, w, k, r, ei, its) ==
    /\ pos' = p
    /\ width' = w
    /\ pc' = k
    /\ ret' = r
    /\ expectIndent' = ei
    /\ items' = its
    /\ UNCHANGED <<input, start, lastPos, closed, received, consumer>>

\* continue at k without sending
Goto(p, w, k) == Producer(p, w, k, "none", FALSE, items)

\* l.emit(t) with l.pos = p, then continue at k
Emit(t, p, w, k) == Producer(p, w, k, "none", FALSE, Append(items, emitItem(t, p)))

\* l.emit(t) with l.pos = p, then l.scanSpaces(), then continue at k
EmitThenSpaces(t, p, w, k) ==
    Producer(p, w, "scanSpaces", k, FALSE, Append(items, emitItem(t, p)))

\* l.errorf(msg); return nil
Errorf(p, w, msg) ==
    Producer(p, w, "nil", "none", FALSE, Append(items, errorItem(msg)))

lexJournal ==
    /\ pc = "lexJournal"
    /\ CanRun
    /\ LET r == RuneAt(pos)
           w == WidthAt(pos)
           p == pos + w
       IN  IF isSpace(r) THEN Emit(itemSpace, acceptSpaces(p), WidthAt(acceptSpaces(p)), "lexJournal")
           ELSE IF r = "~" THEN Emit(itemTilde, p, w, "lexPeriodicXact")
           ELSE IF r = "=" THEN Emit(itemEqual, p, w, "lexAutomatedXact")
           ELSE IF IsDigit(r) THEN Goto(p, w, "lexPlainXactDate")
           ELSE IF isAlphaNumeric(r) THEN Goto(backup(p, w), w, "lexIdentifier")
           ELSE IF isEndOfLine(r) THEN Emit(itemEOL, p, w, "lexJournal")
           ELSE IF r = eof THEN Emit(itemEOF, p, w, "lexJournal")
           ELSE Errorf(p, w, <<"unrecognized character in directive: ", r>>)

lexIdentifier ==
    /\ pc = "lexIdentifier"
    /\ CanRun
    /\ LET n == acceptAlphaNumeric(pos)
           r == RuneAt(n)
           w == WidthAt(n)
           q == backup(n + w, w)
           word == Slice(start, q)
       IN  IF ~atTerminator(q) THEN Errorf(q, w, <<"bad character ", r>>)
           ELSE IF word = wInclude THEN EmitThenSpaces(itemInclude, q, w, "scanStringToEOL")
           ELSE IF word = wEnd THEN EmitThenSpaces(itemEnd, q, w, "lexIdentifier")
           ELSE IF key(word) > itemKeyword THEN Emit(key(word), q, w, "lexJournal")
           ELSE Emit(itemIdentifier, q, w, "lexJournal")

scanSpaces ==
    /\ pc = "scanSpaces"
    /\ CanRun
    /\ LET p == acceptSpaces(pos)
           w == WidthAt(p)
       IN  IF current(p) = <<>> THEN Goto(p, w, ret)
           ELSE Emit(itemSpace, p, w, ret)

scanStringToEOL ==
    /\ pc = "scanStringToEOL"
    /\ CanRun
    /\ LET p == stringToEOL(pos)
           w == WidthAt(p)
       IN  IF current(p) = <<>> THEN Errorf(p, w, <<"missing filename after 'include'">>)
           ELSE Emit(itemString, p, w, "lexJournal")

lexPeriodicXact ==
    /\ pc = "lexPeriodicXact"
    /\ CanRun
    /\ Producer(pos, width, "scanSpaces", "scanStringNote", FALSE, items)

lexAutomatedXact ==
    /\ pc = "lexAutomatedXact"
    /\ CanRun
    /\ Producer(pos, width, "scanSpaces", "scanStringNote", FALSE, items)

scanStringNote ==
    /\ pc = "scanStringNote"
    /\ CanRun
    /\ LET n == stringNoteStop(pos)
           r == RuneAt(n)
           w == WidthAt(n)
           p == n + w
           q == backup(p, w)
       IN  IF r = ";"
           THEN IF current(q) # <<>> THEN Emit(itemString, q, w, "scanNote")
                ELSE Goto(q, w, "scanNote")
           ELSE IF current(p) # <<>> THEN Emit(itemString, p, w, "lexPostings")
           ELSE Goto(p, w, "lexPostings")

scanNote ==
    /\ pc = "scanNote"
    /\ CanRun
    /\ LET n == noteStop(pos + WidthAt(pos))
           w == WidthAt(n)
           q == backup(n + w, w)
       IN  IF current(q) # <<>> THEN Emit(itemNote, q, w, "lexPostings")
           ELSE Goto(q, w, "lexPostings")

lexPlainXactDate ==
    /\ pc = "lexPlainXactDate"
    /\ CanRun
    /\ LET r == RuneAt(pos)
           w == WidthAt(pos)
       IN  IF IsDigit(r) \/ r = "." \/ r = "-" \/ r = "/" THEN Goto(pos + w, w, "lexPlainXactDate")
           ELSE IF isSpace(r) THEN EmitThenSpaces(itemDate, pos, w, "lexPlainXactRest")
           ELSE IF r = eof THEN Errorf(pos, w, <<"unexpected end-of-file">>)
           ELSE IF isEndOfLine(r) THEN Errorf(pos, w, <<"unexpected end-of-line">>)
           ELSE Errorf(pos, w, <<"invalid character in transaction date specification: ", r>>)

\* lexPlainXactRest that does not skip the spaces behind '='
lexPlainXactRest_spacesKept ==
    /\ pc = "lexPlainXactRest"
    /\ CanRun
    /\ LET r == RuneAt(pos)
           w == WidthAt(pos)
           p == pos + w
       IN  IF r = "=" THEN Emit(itemEqual, p, w, "lexPlainXactDate")
           ELSE IF r = "*" THEN EmitThenSpaces(itemAsterisk, p, w, "lexPlainXactRest")
           ELSE IF r = "!" THEN EmitThenSpaces(itemExclamation, p, w, "lexPlainXactRest")
           ELSE IF r = "(" THEN Emit(itemLeftParen, p, w, "scanStringUntil")
           ELSE IF r = ")" THEN Emit(itemRightParen, p, w, "lexPlainXactRest")
           ELSE Goto(backup(p, w), w, "scanStringNote")

lexPlainXactRest ==
    /\ pc = "lexPlainXactRest"
    /\ CanRun
    /\ LET r == RuneAt(pos)
           w == WidthAt(pos)
           p == pos + w
       IN  IF r = "=" THEN EmitThenSpaces(itemEqual, p, w, "lexPlainXactDate")
           ELSE IF r = "*" THEN EmitThenSpaces(itemAsterisk, p, w, "lexPlainXactRest")
           ELSE IF r = "!" THEN EmitThenSpaces(itemExclamation, p, w, "lexPlainXactRest")
           ELSE IF r = "(" THEN Emit(itemLeftParen, p, w, "scanStringUntil")
           ELSE IF r = ")" THEN Emit(itemRightParen, p, w, "lexPlainXactRest")
           ELSE Goto(backup(p, w), w, "scanStringNote")

scanStringUntil ==
    /\ pc = "scanStringUntil"
    /\ CanRun
    /\ LET p == stringUntil(pos, ")")
           w == WidthAt(p)
       IN  IF current(p) = <<>> THEN Goto(p, w, "lexPlainXactRest")
           ELSE Emit(itemString, p, w, "lexPlainXactRest")

\* lexPostings that returns lexJournal without pushing the rune back
postingsIteration_noBackup(ei) ==
    LET r == RuneAt(pos)
        w == WidthAt(pos)
        p == pos + w
    IN  IF isEndOfLine(r)
        THEN Producer(p, w, "lexPostingsLoop", "none", TRUE, Append(items, emitItem(itemEOL, p)))
        ELSE IF ei
        THEN IF isSpace(r) THEN Producer(p, w, "scanSpaces", "lexPostings", FALSE, items)
             ELSE Goto(p, w, "lexJournal")
        ELSE IF r = "*" THEN EmitThenSpaces(itemAsterisk, p, w, "lexPostingsLoop")
        ELSE IF r = "!" THEN EmitThenSpaces(itemExclamation, p, w, "lexPostingsLoop")
        ELSE IF IsLetter(r) THEN Goto(p, w, "scanAccountName")
        ELSE Goto(p, w, "lexPostingsLoop")

\* one iteration of the loop of lexPostings, with expectIndent = ei
postingsIteration(ei) ==
    LET r == RuneAt(pos)
        w == WidthAt(pos)
        p == pos + w
    IN  IF isEndOfLine(r)
        THEN Producer(p, w, "lexPostingsLoop", "none", TRUE, Append(items, emitItem(itemEOL, p)))
        ELSE IF ei
        THEN IF isSpace(r) THEN Producer(p, w, "scanSpaces", "lexPostings", FALSE, items)
             ELSE Goto(backup(p, w), w, "lexJournal")
        ELSE IF r = "*" THEN EmitThenSpaces(itemAsterisk, p, w, "lexPostingsLoop")
        ELSE IF r = "!" THEN EmitThenSpaces(itemExclamation, p, w, "lexPostingsLoop")
        ELSE IF IsLetter(r) THEN Goto(p, w, "scanAccountName")
        ELSE Goto(p, w, "lexPostingsLoop")

lexPostings ==
    /\ pc = "lexPostings"
    /\ CanRun
    /\ postingsIteration(FALSE)

lexPostingsLoop ==
    /\ pc = "lexPostingsLoop"
    /\ CanRun
    /\ postingsIteration(expectIndent)

scanAccountName ==
    /\ pc = "scanAccountName"
    /\ CanRun
    /\ LET p == accountNameStop(pos)
       IN  Emit(itemAccountName, p, WidthAt(p), "lexPostingAmount")

lexPostingAmount ==
    /\ pc = "lexPostingAmount"
    /\ CanRun
    /\ Goto(pos, width, "lexPostings")

\* run: the state is nil, so the loop ends and the channel is closed
runClose ==
    /\ pc = "nil"
    /\ CanRun
    /\ closed' = TRUE
    /\ pc' = "exit"
    /\ UNCHANGED <<input, pos, start, width, lastPos, items, ret, expectIndent,
                   received, consumer>>

(***************************************************************************)
(* The consumer.  A receive completes the producer's send; the producer's  *)
(* next statement, l.start = l.pos of emit, is taken with it.              *)
(***************************************************************************)
\* emit without l.start = l.pos
sendCompleted_startKept(it) == start

sendCompleted(it) == IF it.typ = itemError THEN start ELSE pos

\* collect: the loop runs until it has seen itemEOF or itemError
collecting ==
    IF received = <<>> THEN TRUE
    ELSE received[Len(received)].typ \notin {itemEOF, itemError}

nextItem ==
    /\ consumer = "reading"
    /\ collecting
    /\ items # <<>>
    /\ received' = Append(received, Head(items))
    /\ lastPos' = returnedPos(Head(items))
    /\ items' = Tail(items)
    /\ start' = sendCompleted(Head(items))
    /\ UNCHANGED <<input, pos, width, closed, pc, ret, expectIndent, consumer>>

drainCall ==
    /\ consumer = "reading"
    /\ consumer' = "draining"
    /\ UNCHANGED <<input, pos, start, width, lastPos, items, closed, pc, ret,
                   expectIndent, received>>

drainReceive ==
    /\ consumer = "draining"
    /\ items # <<>>
    /\ items' = Tail(items)
    /\ start' = sendCompleted(Head(items))
    /\ UNCHANGED <<input, pos, width, lastPos, closed, pc, ret, expectIndent,
                   received, consumer>>

drainReturn ==
    /\ consumer = "draining"
    /\ items = <<>>
    /\ closed
    /\ consumer' = "drained"
    /\ UNCHANGED <<input, pos, start, width, lastPos, items, closed, pc, ret,
                   expectIndent, received>>

run ==
    \/ lexJournal
    \/ lexIdentifier
    \/ scanSpaces
    \/ scanStringToEOL
    \/ lexPeriodicXact
    \/ lexAutomatedXact
    \/ scanStringNote
    \/ scanNote
    \/ lexPlainXactDate
    \/ lexPlainXactRest
    \/ scanStringUntil
    \/ lexPostings
    \/ lexPostingsLoop
    \/ scanAccountName
    \/ lexPostingAmount
    \/ runClose

Next ==
    \/ run
    \/ nextItem
    \/ drainCall
    \/ drainReceive
    \/ drainReturn

Spec == Init /\ [][Next]_vars

\* the Go scheduler runs every goroutine that can run
FairSpec ==
    /\ FairInit
    /\ [][Next]_vars
    /\ WF_vars(run)
    /\ WF_vars(nextItem)
    /\ WF_vars(drainReceive)
    /\ WF_vars(drainReturn)

(***************************************************************************)
(* The stream the consumer is given: the items collect has received,       *)
(* followed by the item the producer is offering.  It is everything the    *)
(* scanner has emitted for as long as the consumer has not called drain    *)
(* (drain discards what it receives); the producer does not depend on who  *)
(* receives, so the runs without drain show every prefix of its output up  *)
(* to the first token offered behind a terminal one.                       *)
(***************************************************************************)
Stream == received \o items

Reading == consumer = "reading"

IsTerminal(it) == it.typ \in {itemEOF, itemError}

TerminalReceived == \E i \in 1..Len(received) : IsTerminal(received[i])

\* the offset just behind the text of the token Stream[i]
EndOf(i) == Stream[i].pos + Len(Stream[i].val)

\* C1: once an Error or EndOfInput token is emitted, the producer offers no
\* further token: a terminal token is the last item of the stream.
C1_NothingAfterTerminal ==
    Reading => \A i \in 1..Len(Stream) : IsTerminal(Stream[i]) => i = Len(Stream)

\* C2: with a consumer that keeps calling nextItem, no state spins without
\* emitting: until a terminal token is delivered, the producer can take a step
\* that changes its state (consume a rune, emit, move to another state or
\* halt) or the consumer can take the token that is offered.
C2_AlwaysProgress ==
    (Reading /\ ~TerminalReceived) => ENABLED <<run \/ nextItem>>_vars

\* C3: a call of drain eventually returns, with the producer out of run and
\* the channel closed.
C3_DrainReturns ==
    (consumer = "draining") ~> (consumer = "drained" /\ pc = "exit" /\ closed)

RECURSIVE TextsBefore(_)
\* the texts of Stream[1 .. i - 1], concatenated in emission order
TextsBefore(i) == IF i <= 1 THEN <<>> ELSE TextsBefore(i - 1) \o Stream[i - 1].val

\* the end of the last token before Stream[i] that is not an Error, or 0
PrecedingEnd(i) ==
    LET before == {j \in 1..(i - 1) : Stream[j].typ # itemError}
    IN  IF before = {} THEN 0
        ELSE EndOf(CHOOSE j \in before : \A k \in before : k <= j)

\* C4: the first token starts at offset 0, every later token starts where the
\* text of the preceding non-error token ended, and the texts of the tokens
\* before any token that no Error precedes concatenate to the source up to
\* the start of that token.
C4_TokensTileTheSource ==
    Reading =>
        \A i \in 1..Len(Stream) :
            /\ Stream[i].pos = PrecedingEnd(i)
            /\ (\A j \in 1..(i - 1) : Stream[j].typ # itemError)
                  => TextsBefore(i) = SubSeq(input, 1, Stream[i].pos)

C4_Witness ==
    /\ consumer = "reading"
    /\ Len(received) >= 4
    /\ received[Len(received)].typ = itemEOF
    /\ \A i \in 1..(Len(received) - 1) : received[i].val # <<>>
    /\ received[2].pos > 0

\* C5: at most one token is ever in flight (sent and not yet received), and
\* while a token is offered the producer's cursor and state stay as they are.
C5_SynchronousHandoff ==
    [][/\ Len(items') <= 1
       /\ (items # <<>> /\ items' # <<>>)
             => /\ items' = items
                /\ <<pos, start, width, pc, ret, expectIndent, closed>>'
                      = <<pos, start, width, pc, ret, expectIndent, closed>>]_vars

C5_Witness ==
    /\ Len(items) = 1
    /\ Len(received) >= 2
    /\ ~IsTerminal(items[1])
    /\ pos < Len(input)

DateSeparators == {".", "-", "/"}

\* t is a non-empty run of digits and date separators
IsDateRun(t) == t # <<>> /\ \A k \in 1..Len(t) : t[k] \in Digits \cup DateSeparators

\* t is three digit fields, of at most 4, 2 and 2 digits, with a separator
\* between the first and the second and between the second and the third
IsDateLayout(t) ==
    \E a, b \in 1..Len(t) :
        /\ a < b
        /\ t[a] \in DateSeparators
        /\ t[b] \in DateSeparators
        /\ \A k \in 1..Len(t) : k \notin {a, b} => t[k] \in Digits
        /\ a - 1 \in 1..4
        /\ b - a - 1 \in 1..2
        /\ Len(t) - b \in 1..2

\* Stream[i] follows an '=' of a transaction header and its optional spaces:
\* it comes from the date scan the header starts, not from a top-level one
AfterEqual(i) ==
    \/ i > 1 /\ Stream[i - 1].typ = itemEqual
    \/ i > 2 /\ Stream[i - 1].typ = itemSpace /\ Stream[i - 2].typ = itemEqual

EndOfDateErrors == {<<"unexpected end-of-file">>, <<"unexpected end-of-line">>}

\* C6: when end-of-input or an end-of-line character ends a top-level date
\* run, the Error token follows a Date token that holds the run.
C6_DateBeforeEndError ==
    Reading =>
        \A i \in 1..Len(Stream) :
            (/\ Stream[i].typ = itemError
             /\ Stream[i].val \in EndOfDateErrors
             /\ ~AfterEqual(i))
                => /\ i > 1
                   /\ Stream[i - 1].typ = itemDate
                   /\ IsDateRun(Stream[i - 1].val)
                   /\ IF Stream[i].val = <<"unexpected end-of-file">>
                      THEN RuneAt(EndOf(i - 1)) = eof
                      ELSE isEndOfLine(RuneAt(EndOf(i - 1)))

\* the end of the maximal run of digits and date separators that starts at k
DateRunEnd(k) ==
    CHOOSE q \in k..Len(input) :
        /\ \A j \in (k + 1)..q : input[j] \in Digits \cup DateSeparators
        /\ q = Len(input) \/ input[q + 1] \notin Digits \cup DateSeparators

\* C7: every Date token holds a three-field numeric date, and a run of
\* another shape that starts the input and is followed by a space or tab is
\* answered with an Error token.
C7_DatesAreWellFormed ==
    Reading =>
        /\ \A i \in 1..Len(Stream) :
              Stream[i].typ = itemDate => IsDateLayout(Stream[i].val)
        /\ (/\ Len(Stream) >= 1
            /\ IsDigit(RuneAt(0))
            /\ isSpace(RuneAt(DateRunEnd(0)))
            /\ ~IsDateLayout(SubSeq(input, 1, DateRunEnd(0))))
              => Stream[1].typ = itemError

\* the byte at offset j belongs to a letter, a digit or an underscore
AlnumByte(j) ==
    \/ input[j + 1] \in (Letters \cup Digits \cup {"_"})
    \/ input[j + 1] = "C3" /\ j + 1 < Len(input) /\ input[j + 2] = "A9"
    \/ input[j + 1] = "A9" /\ j >= 1 /\ input[j] = "C3"

\* the end of the maximal run of letters, digits and underscores from k
BarewordEnd(k) ==
    CHOOSE q \in k..Len(input) :
        /\ \A j \in k..(q - 1) : AlnumByte(j)
        /\ q = Len(input) \/ ~AlnumByte(q)

\* the byte behind that run, or eof
BarewordFollower(k) ==
    IF BarewordEnd(k) = Len(input) THEN eof ELSE input[BarewordEnd(k) + 1]

IsBadCharacter(it) == it.typ = itemError /\ it.val[1] = "bad character "

\* C8: a bareword that extends to the end of the input is not answered with
\* an Error token.
C8_BarewordAtEndOfInput ==
    Reading =>
        \A i \in 1..Len(Stream) :
            IsBadCharacter(Stream[i])
                => ~(/\ BarewordEnd(Stream[i].pos) > Stream[i].pos
                     /\ BarewordEnd(Stream[i].pos) = Len(input))

BarewordTypes ==
    {itemInclude, itemAccountKeyword, itemEnd, itemAlias, itemPrice, itemIdentifier}

Terminators == {" ", "\t", "\n", "\r"}

\* every keyword or identifier token is followed by a space, tab or end-of-line
BarewordsAreTerminated ==
    Reading =>
        \A i \in 1..Len(Stream) :
            Stream[i].typ \in BarewordTypes
                => BarewordFollower(Stream[i].pos) \in Terminators

\* C9: in the bareword state, when the rune behind the run of letters, digits
\* and underscores is no space, tab or end-of-line, the scanner sends an Error
\* token and goes to nil, and no keyword or identifier token is emitted with
\* such a rune behind it.
C9_BadTerminatorIsAnError ==
    [][/\ BarewordsAreTerminated'
       /\ (/\ pc = "lexIdentifier"
           /\ pc' # "lexIdentifier"
           /\ BarewordFollower(pos) \notin Terminators \cup {eof})
             => /\ pc' = "nil"
                /\ Len(items') = 1
                /\ IsBadCharacter(items'[1])
                /\ items'[1].pos = pos]_vars

C9_Witness ==
    /\ Reading
    /\ pc = "exit"
    /\ \E i \in 1..Len(received) :
          /\ received[i].val = <<"bad character ", "#">>
          /\ received[i].pos < pos

\* the end of the run of spaces and tabs from k
SpacesEnd(k) ==
    CHOOSE q \in k..Len(input) :
        /\ \A j \in (k + 1)..q : input[j] \in {" ", "\t"}
        /\ q = Len(input) \/ input[q + 1] \notin {" ", "\t"}

\* the end of the line from k: the offset of its end-of-line character, or
\* the end of the input
LineEnd(k) ==
    CHOOSE q \in k..Len(input) :
        /\ \A j \in (k + 1)..q : input[j] \notin {"\n", "\r"}
        /\ q = Len(input) \/ input[q + 1] \in {"\n", "\r"}

\* C10: an Include token is followed by a Whitespace token when spaces or
\* tabs follow, then by one String token with the rest of the line, after
\* which the scanner is in lexJournal; when the rest of the line is empty, by
\* an Error token that ends the stream at nil, and by no String token.
C10_IncludeTakesTheRestOfTheLine ==
    Reading =>
        \A i \in 1..Len(Stream) :
            Stream[i].typ = itemInclude =>
                LET e == EndOf(i)
                    sp == SpacesEnd(e)
                    le == LineEnd(sp)
                    j == IF sp > e THEN i + 2 ELSE i + 1
                IN  /\ (sp > e /\ Len(Stream) > i)
                          => Stream[i + 1] = [typ |-> itemSpace, pos |-> e,
                                              val |-> SubSeq(input, e + 1, sp)]
                    /\ (le > sp /\ Len(Stream) >= j)
                          => /\ Stream[j] = [typ |-> itemString, pos |-> sp,
                                             val |-> SubSeq(input, sp + 1, le)]
                             /\ (Len(Stream) = j /\ items = <<>>) => pc = "lexJournal"
                             /\ Len(Stream) > j => Stream[j + 1].typ # itemString
                    /\ (le = sp /\ Len(Stream) >= j)
                          => /\ Stream[j] = [typ |-> itemError, pos |-> sp,
                                             val |-> <<"missing filename after 'include'">>]
                             /\ Len(Stream) = j
                             /\ pc \in {"nil", "exit"}

C10_Witness ==
    /\ Reading
    /\ \E i \in 1..Len(received) :
          /\ received[i].typ = itemInclude
          /\ Len(received) >= i + 3
          /\ received[i + 1].typ = itemSpace
          /\ received[i + 2].typ = itemString
          /\ received[i + 3].typ = itemEOF

HasEndOfLine(t) == \E k \in 1..Len(t) : isEndOfLine(t[k])

\* C11: no String token holds an end-of-line character, and when an
\* end-of-line character follows the text of a String or Note token, the
\* next token is the EndOfLine token of that character.
C11_TextStopsBeforeEndOfLine ==
    Reading =>
        \A i \in 1..Len(Stream) :
            /\ Stream[i].typ = itemString => ~HasEndOfLine(Stream[i].val)
            /\ (/\ Stream[i].typ \in {itemString, itemNote}
                /\ isEndOfLine(RuneAt(EndOf(i)))
                /\ Len(Stream) > i)
                  => Stream[i + 1] = [typ |-> itemEOL, pos |-> EndOf(i),
                                      val |-> <<RuneAt(EndOf(i))>>]

\* t is digits, with at most one '.' that has digits on both sides
IsQuantity(t) ==
    /\ t # <<>>
    /\ \A k \in 1..Len(t) : t[k] \in Digits \cup {"."}
    /\ Cardinality({k \in 1..Len(t) : t[k] = "."}) <= 1
    /\ t[1] # "." /\ t[Len(t)] # "."

\* it is a token of an amount, with the text of its kind
IsAmountToken(it) ==
    \/ it.typ = itemNeg /\ it.val = <<"-">>
    \/ it.typ = itemQuantity /\ IsQuantity(it.val)
    \/ it.typ = itemCommodity /\ it.val # <<>>
          /\ \A k \in 1..Len(it.val) : it.val[k] \in Letters
    \/ it.typ = itemSpace /\ it.val # <<>>
          /\ \A k \in 1..Len(it.val) : isSpace(it.val[k])

\* Stream[i] follows an AccountName token on the line of that token
BehindAccountName(i) ==
    \E a \in 1..(i - 1) :
        /\ Stream[a].typ = itemAccountName
        /\ \A k \in a..(i - 1) : Stream[k].typ # itemEOL

\* C12: on a posting line, the tokens behind the account name, up to the
\* note, the end of the line or the end of the stream, are amount tokens
\* (Negation, Quantity, CommodityCode, Whitespace), the first of them the
\* Whitespace token of the field separator; none is an AccountName.
C12_AmountBehindAccountName ==
    Reading =>
        \A i \in 2..Len(Stream) :
            /\ (/\ BehindAccountName(i)
                /\ Stream[i].typ \notin {itemEOL, itemNote, itemEOF, itemError})
                  => IsAmountToken(Stream[i])
            /\ (Stream[i - 1].typ = itemAccountName /\ atSpacer(EndOf(i - 1)))
                  => Stream[i] = [typ |-> itemSpace, pos |-> EndOf(i - 1),
                                  val |-> SubSeq(input, EndOf(i - 1) + 1,
                                                 SpacesEnd(EndOf(i - 1)))]

\* the states that scan a bareword, a date or a marker at the top level
TopLevelStates == {"lexJournal", "lexIdentifier", "lexPlainXactDate"}

\* the rune at p is no space, tab or end-of-line and not the end of the input
StartsUnindented(p) ==
    ~isSpace(RuneAt(p)) /\ ~isEndOfLine(RuneAt(p)) /\ RuneAt(p) # eof

\* the producer is in the loop of lexPostings behind an end-of-line, about to
\* read a rune that is no space, tab or end-of-line
AtUnindentedLine ==
    /\ pc = "lexPostingsLoop"
    /\ expectIndent
    /\ items = <<>>
    /\ ~isSpace(RuneAt(pos))
    /\ ~isEndOfLine(RuneAt(pos))

\* C13: when the line behind an EndOfLine token that lexPostings has emitted
\* starts with a rune that is no space, tab or end-of-line, lexPostings
\* pushes the rune back and returns lexJournal with pos and start both at
\* the offset of that rune, and sends nothing; the token a top-level state
\* sends next starts at start and, if it is no Error, holds the input from
\* there, that rune included, start staying where it is until then.
C13_UnindentedLineGoesToTopLevel ==
    [][/\ (AtUnindentedLine /\ consumer' = consumer)
             => /\ start = pos
                /\ Reading => /\ Stream # <<>>
                              /\ Stream[Len(Stream)].typ = itemEOL
                              /\ EndOf(Len(Stream)) = pos
                /\ pc' = "lexJournal"
                /\ pos' = pos
                /\ start' = pos
                /\ items' = <<>>
       /\ (pc \in TopLevelStates /\ items = <<>> /\ consumer' = consumer)
             => /\ start' = start
                /\ items' # <<>>
                      => /\ items'[1].pos = start
                         /\ items'[1].typ # itemError
                               => /\ items'[1].val = Slice(start, pos')
                                  /\ (pos > start \/ StartsUnindented(pos))
                                        => pos' > start]_vars

C13_Witness ==
    /\ Reading
    /\ pc = "lexJournal"
    /\ items = <<>>
    /\ Len(received) >= 2
    /\ received[Len(received)].typ = itemEOL
    /\ received[Len(received) - 1].typ = itemAccountName
    /\ start = pos
    /\ pos = EndOf(Len(received))
    /\ IsLetter(RuneAt(pos))

\* the number of newline characters before offset k
NewlinesBefore(k) == Cardinality({j \in 1..k : input[j] = "\n"})

\* the last item collect has received is an Error
ErrorReceived == received # <<>> /\ received[Len(received)].typ = itemError

\* the start of the last token received before the last one that is no Error
\* (0 when there is none)
PrecedingStart ==
    LET before == {j \in 1..(Len(received) - 1) : received[j].typ # itemError}
    IN  IF before = {} THEN 0
        ELSE received[CHOOSE j \in before : \A k \in before : k <= j].pos

\* C14 as stated: after nextItem has returned an Error token, lineNumber is
\* 1 plus the number of newlines before the start of the last token that
\* was received before it.
C14_LineOfTokenBeforeError ==
    ErrorReceived => lineNumber = 1 + NewlinesBefore(PrecedingStart)

\* C14 amended: after nextItem has returned an Error token, lineNumber is
\* 1 plus the number of newlines before the position of the Error token
\* itself, which is the end of the last token received before it.
C14_LineOfErrorPosition ==
    ErrorReceived =>
        /\ lineNumber = 1 + NewlinesBefore(received[Len(received)].pos)
        /\ lineNumber = 1 + NewlinesBefore(PrecedingEnd(Len(received)))

C14_Witness ==
    /\ Reading
    /\ ErrorReceived
    /\ Len(received) >= 2
    /\ received[Len(received) - 1].typ = itemEOL
    /\ received[Len(received) - 1].val = <<"\n">>
    /\ received[Len(received)].pos = PrecedingStart + 1

\* C15: the text of every EndOfLine token is one end-of-line character, and
\* the text of every Asterisk and Exclamation token is its one character:
\* no rune that lexPostings has read without emitting is part of them.
C15_OneCharacterTokens ==
    Reading =>
        \A i \in 1..Len(Stream) :
            /\ Stream[i].typ = itemEOL => Stream[i].val \in {<<"\n">>, <<"\r">>}
            /\ Stream[i].typ = itemAsterisk => Stream[i].val = <<"*">>
            /\ Stream[i].typ = itemExclamation => Stream[i].val = <<"!">>

\* C16: the cursor stays between the start mark and the end of the input,
\* no step moves it back by more than the width of the rune read last, and
\* the text of every token emit sends is the input from start to pos.
C16_SingleLevelPushback ==
    [][/\ 0 <= start'
       /\ start' <= pos'
       /\ pos' <= Len(input)
       /\ pos' >= pos - width'
       /\ (items = <<>> /\ items' # <<>> /\ items'[1].typ # itemError)
             => /\ items'[1].pos = start
                /\ Len(items'[1].val) = pos' - start]_vars

C16_Witness ==
    /\ pc = "lexIdentifier"
    /\ width = 2
    /\ pos = start
    /\ pos > 0
    /\ RuneAt(pos) = LatinSmallEAcute

\* the types of the tokens the top level sends for a rune that is no space,
\* tab or end-of-line
TopLevelTypes == {itemTilde, itemEqual, itemDate, itemError} \cup BarewordTypes

\* the first line is a transaction header that an end-of-line character
\* ends, and the line behind it starts with a rune that is no space, tab or
\* end-of-line
HeaderThenUnindentedLine ==
    /\ RuneAt(0) \in Digits \cup {"~", "="}
    /\ LineEnd(0) < Len(input)
    /\ StartsUnindented(LineEnd(0) + 1)

\* C17: the line behind a header line, when it is not indented, is scanned
\* from its first rune by the top level: no token of the header or of the
\* postings block reaches into it, and a token that starts at its first
\* rune is one the top level sends (a Date for a digit).
C17_UnindentedLineAfterHeader ==
    (Reading /\ HeaderThenUnindentedLine) =>
        LET k == LineEnd(0) + 1
        IN  \A i \in 1..Len(Stream) :
               /\ (Stream[i].typ # itemError /\ EndOf(i) > k)
                     => Stream[i].pos >= k
               /\ Stream[i].pos = k
                     => /\ Stream[i].typ \in TopLevelTypes
                        /\ (IsDigit(RuneAt(k)) /\ Stream[i].typ # itemError)
                              => Stream[i].typ = itemDate

\* C18: every token but EndOfInput and Error has a text that is not empty.
C18_NoEmptyToken ==
    Reading =>
        \A i \in 1..Len(Stream) : ~IsTerminal(Stream[i]) => Stream[i].val # <<>>

\* the text of every Date token is a non-empty run of digits and separators
DatesAreRuns ==
    Reading =>
        \A i \in 1..Len(Stream) : Stream[i].typ = itemDate => IsDateRun(Stream[i].val)

\* C19: every Date token holds a non-empty run of digits and '.', '-', '/',
\* whether its scan starts at the top level or behind an '=' of a header,
\* and when the date scan behind an '=' has consumed nothing and the next
\* rune is no digit or separator, it sends an Error token and goes to nil.
C19_DateIsNeverEmpty ==
    [][/\ DatesAreRuns'
       /\ (/\ pc = "lexPlainXactDate"
           /\ items = <<>>
           /\ consumer' = consumer
           /\ start = pos
           /\ RuneAt(pos) \notin Digits \cup DateSeparators)
             => /\ pc' = "nil"
                /\ Len(items') = 1
                /\ items'[1].typ = itemError
                /\ items'[1].pos = pos]_vars

C19_Witness ==
    /\ Reading
    /\ \E i \in 3..Len(received) :
          /\ received[i].typ = itemDate
          /\ received[i - 1].typ = itemSpace
          /\ received[i - 2].typ = itemEqual
          /\ received[i].val[1] \in DateSeparators

====
